---- MODULE Spec2Model ----
(***************************************************************************)
(* Model of the authentication glue layer:                                 *)
(*   - components/AuthForm.tsx : schema validation, onSubmit (sign-up and  *)
(*     sign-in branches) and handleGoogleSignIn, as interleavable async    *)
(*     invocations of one form instance;                                   *)
(*   - firebase/client.ts and firebase/admin.ts : the guarded SDK          *)
(*     initialisers and the private key normalisation.                     *)
(* Text (field values, key material) is a sequence of one-character        *)
(* strings, so that lengths and character positions are what the code sees. *)
(***************************************************************************)
EXTENDS Integers, Sequences, FiniteSets, Bags, TLC

VARIABLES
    type,          \* FormType of the form instance: "sign-in" or "sign-up"
    values,        \* react-hook-form field values {name, email, password}
    formErrors,    \* fields the resolver reported at the last submit
    inv,           \* the handler invocations this form instance has started (a bag:
                   \* invocations have no identity beyond their locals and effects)
    clientApps,    \* firebase/app registry (getApps()) of the browser SDK
    clientInits,   \* calls of the browser SDK's initializeApp
    clientHandles, \* the app each evaluation of client.ts bound auth/db to
    adminApps,     \* firebase-admin registry (admin.apps)
    adminInits,    \* calls of admin.initializeApp
    adminHandles,  \* the app each initFirebaseAdmin() returned handles of
    envKey,        \* process.env.FIREBASE_PRIVATE_KEY ([set, text]; unset is undefined)
    certKeys       \* the privateKey values handed to admin.credential.cert

formVars == <<type, values, formErrors, inv>>
sdkVars == <<clientApps, clientInits, clientHandles, adminApps, adminInits,
             adminHandles, envKey, certKeys>>
vars == <<type, values, formErrors, inv, clientApps, clientInits,
          clientHandles, adminApps, adminInits, adminHandles, envKey, certKeys>>

---------------------------------------------------------------------------
(* Bounds *)

\* handler invocations (onSubmit / handleGoogleSignIn) one run starts
MaxInvocations == 2
\* evaluations of each initialiser one run follows
MaxEvals == 3
\* length of the private key environment value
MaxKeyLen == 4

---------------------------------------------------------------------------
(* Text helpers *)

RECURSIVE SplitAt(_, _, _)
\* the pieces of s between occurrences of character c (String.split)
SplitAt(s, c, cur) ==
    IF s = <<>> THEN <<cur>>
    ELSE IF Head(s) = c THEN <<cur>> \o SplitAt(Tail(s), c, <<>>)
    ELSE SplitAt(Tail(s), c, Append(cur, Head(s)))

Letters == {"a", "b", "c"}
Digits == {"1"}
AlphaNum == Letters \cup Digits

\* zod's email pattern:
\*   ^(?!\.)(?!.*\.\.)([A-Z0-9_'+\-\.]*)[A-Z0-9_+-]@([A-Z0-9][A-Z0-9\-]*\.)+[A-Z]{2,}$
IsEmail(s) ==
    LET parts == SplitAt(s, "@", <<>>)
        local == parts[1]
        labels == SplitAt(parts[2], ".", <<>>)
        n == Len(labels)
    IN /\ Len(parts) = 2
       /\ s # <<>> /\ s[1] # "."
       /\ \A i \in 1..(Len(s) - 1) : ~(s[i] = "." /\ s[i + 1] = ".")
       /\ local # <<>>
       /\ \A i \in 1..Len(local) : local[i] \in AlphaNum \cup {"_", "'", "+", "-", "."}
       /\ local[Len(local)] \in AlphaNum \cup {"_", "+", "-"}
       /\ n >= 2
       /\ \A k \in 1..(n - 1) :
             /\ labels[k] # <<>>
             /\ labels[k][1] \in AlphaNum
             /\ \A i \in 1..Len(labels[k]) : labels[k][i] \in AlphaNum \cup {"-"}
       /\ Len(labels[n]) >= 2
       /\ \A i \in 1..Len(labels[n]) : labels[n][i] \in Letters

---------------------------------------------------------------------------
(* Validation schema *)

\* z.string().min(3)
MinLen == 3

authFormSchemaNoNameRule(t, d) ==
    (IF ~IsEmail(d.email) THEN {"email"} ELSE {})
    \cup (IF Len(d.password) < MinLen THEN {"password"} ELSE {})

\* the fields of d that fail the schema of FormType t
authFormSchema(t, d) ==
    (IF t = "sign-up" /\ Len(d.name) < MinLen THEN {"name"} ELSE {})
    \cup (IF ~IsEmail(d.email) THEN {"email"} ELSE {})
    \cup (IF Len(d.password) < MinLen THEN {"password"} ELSE {})

---------------------------------------------------------------------------
(* Values crossing the provider and remote-action boundaries *)

\* stands for JavaScript's undefined / null where a string is expected
JsUndefined == "<undefined>"
Truthy(x) == x \notin {"", JsUndefined}

EmptyData == [name |-> <<>>, email |-> <<>>, password |-> <<>>]

GoodName == <<"a", "b", "c">>
GoodEmail == <<"a", "@", "b", ".", "c", "c">>
GoodPassword == <<"a", "b", "1">>
\* what the user can have typed before a submit: nothing (the defaults), a
\* passing input, and inputs with one failing field each. The name field is rendered for
\* sign-up only, so it keeps its default "" with sign-in.
Inputs(t) ==
    LET name == IF t = "sign-up" THEN GoodName ELSE <<>>
        ok == [name |-> name, email |-> GoodEmail, password |-> GoodPassword]
    IN {EmptyData, ok,
        [ok EXCEPT !.email = <<"a", "b", ".", "c", "c">>],
        [ok EXCEPT !.email = <<"a", "@", "b">>],
        [ok EXCEPT !.password = <<"a", "1">>]}
       \cup (IF t = "sign-up" THEN {[ok EXCEPT !.name = <<"a", "b">>]} ELSE {})

\* errors a rejected await can carry: code is error.code, str is `${error}`
NoCode == JsUndefined
PopupClosed == [code |-> "auth/popup-closed-by-user", str |-> "FirebaseError: popup closed"]
NetworkError == [code |-> "auth/network-request-failed", str |-> "FirebaseError: network"]
ProviderErrors == {NetworkError}
PopupErrors == {PopupClosed, NetworkError, [code |-> NoCode, str |-> "Error: failed"]}
TypeError == [code |-> NoCode, str |-> "TypeError: cannot read properties of undefined"]
NoError == [code |-> NoCode, str |-> ""]

\* what a remote action can return; defined = FALSE is a missing result
Results == {[defined |-> TRUE, success |-> TRUE, message |-> "ok"],
            [defined |-> TRUE, success |-> FALSE, message |-> "X"],
            [defined |-> TRUE, success |-> FALSE, message |-> ""],
            [defined |-> FALSE, success |-> FALSE, message |-> ""]}
NoResult == [defined |-> FALSE, success |-> FALSE, message |-> "-"]
\* what remote signIn can return (its shape is never looked at)
SignInResults == {[defined |-> TRUE, success |-> TRUE, message |-> "ok"],
                  [defined |-> TRUE, success |-> FALSE, message |-> "X"],
                  [defined |-> FALSE, success |-> FALSE, message |-> ""]}

Tokens == {"tok", "", JsUndefined}

\* the user handle of a federated credential; displayName <<>> is null
GoogleUsers == {[uid |-> "g1", email |-> <<"g", "@", "b", ".", "c", "c">>,
                 displayName |-> <<>>]}
NoUser == [uid |-> "-", email |-> <<>>, displayName |-> <<>>]
\* userCredential.additionalUserInfo, which may be absent
UserInfos == {[present |-> FALSE, isNewUser |-> FALSE],
              [present |-> TRUE, isNewUser |-> FALSE],
              [present |-> TRUE, isNewUser |-> TRUE]}

---------------------------------------------------------------------------
(* Handler invocations *)

\* a local not assigned yet
Unset == "<unset>"

\* the locals and effects of an invocation that has not run yet: its kind and
\* position are set on entry ("done" = returned, "escaped" = an exception left
\* the handler); calls, toasts and nav list what it did, in order
NoInv == [kind |-> "none", pc |-> "none", data |-> EmptyData, user |-> NoUser,
          isNewUser |-> FALSE, idToken |-> Unset, result |-> NoResult,
          error |-> NoError, signInReturned |-> NoResult,
          calls |-> <<>>, toasts |-> <<>>, nav |-> <<>>]

Toast(r, level, text) ==
    [r EXCEPT !.toasts = Append(@, [level |-> level, text |-> text])]
Call(r, c) == [r EXCEPT !.calls = Append(@, c)]
Push(r, path) == [r EXCEPT !.nav = Append(@, path)]
Return(r) == [r EXCEPT !.pc = "done"]

MsgAccountCreated == <<"Account created successfully. Please sign in.">>
MsgSignInFailed == <<"Sign in Failed. Please try again.">>
MsgSignedIn == <<"Signed in successfully.">>
MsgGoogleFailed == <<"Google Sign-in Failed. Please try again.">>
MsgFinalizeFailed == <<"Failed to finalize account creation in database.">>
MsgGoogleSignedIn == <<"Signed in successfully with Google.">>
MsgCancelled == <<"Sign-in cancelled. The popup was closed.">>
MsgError(e) == <<"There was an error: ", e.str>>
MsgGoogleError(e) == <<"Google Sign-In failed: ", e.str>>

(* ---- onSubmit ---- *)

onSubmitCatchRethrows(r, e) == [r EXCEPT !.error = e, !.pc = "escaped"]

\* catch (error) { console.log(error); toast.error(...) }
onSubmitCatch(r, e) ==
    Return(Toast([r EXCEPT !.error = e], "error", MsgError(e)))

\* entry of onSubmit up to its first await
onSubmitEnter(t, d) ==
    LET r == [NoInv EXCEPT !.kind = "onSubmit", !.data = d]
    IN IF t = "sign-up"
       THEN Call([r EXCEPT !.pc = "createUser"],
                 <<"createUserWithEmailAndPassword", d.email, d.password>>)
       ELSE Call([r EXCEPT !.pc = "signInWithEmail"],
                 <<"signInWithEmailAndPassword", d.email, d.password>>)

\* createUserWithEmailAndPassword resolved with a credential of user uid
onCreateUserResolved(r, uid) ==
    Call([r EXCEPT !.user = [NoUser EXCEPT !.uid = uid], !.pc = "signUp"],
         <<"signUp", uid, r.data.name, r.data.email, r.data.password>>)

onSignUpReturnedNoReturn(r, res) ==
    LET r1 == [r EXCEPT !.result = res]
    IN IF ~res.defined THEN onSubmitCatch(r1, TypeError)
       ELSE LET r2 == IF ~res.success THEN Toast(r1, "error", <<res.message>>) ELSE r1
            IN Return(Push(Toast(r2, "success", MsgAccountCreated), "/sign-in"))

\* remote signUp returned res: lines 64-70
onSignUpReturned(r, res) ==
    LET r1 == [r EXCEPT !.result = res]
    IN IF ~res.defined THEN onSubmitCatch(r1, TypeError)
       ELSE IF ~res.success THEN Return(Toast(r1, "error", <<res.message>>))
       ELSE Return(Push(Toast(r1, "success", MsgAccountCreated), "/sign-in"))

\* signInWithEmailAndPassword resolved: ask the user handle for a token
onSignInWithEmailResolved(r, uid) ==
    Call([r EXCEPT !.user = [NoUser EXCEPT !.uid = uid], !.pc = "getIdToken"],
         <<"getIdToken">>)

onIdTokenResolvedNoCheck(r, tok) ==
    Call([r EXCEPT !.idToken = tok, !.pc = "signIn"], <<"signIn", r.data.email, tok>>)

\* getIdToken resolved with tok: lines 80-89
onIdTokenResolved(r, tok) ==
    LET r1 == [r EXCEPT !.idToken = tok]
    IN IF ~Truthy(tok) THEN Return(Toast(r1, "error", MsgSignInFailed))
       ELSE Call([r1 EXCEPT !.pc = "signIn"], <<"signIn", r.data.email, tok>>)

onSignInReturnedChecked(r, res) ==
    LET r1 == [r EXCEPT !.signInReturned = res]
    IN IF res.defined /\ ~res.success THEN Return(Toast(r1, "error", <<res.message>>))
       ELSE Return(Push(Toast(r1, "success", MsgSignedIn), "/"))

\* remote signIn returned res, which the handler binds to nothing (lines 86-92);
\* signInReturned only remembers what the action answered to this branch
onSignInReturned(r, res) ==
    Return(Push(Toast([r EXCEPT !.signInReturned = res], "success", MsgSignedIn), "/"))

(* ---- handleGoogleSignIn ---- *)

googleCatchAlwaysGeneric(r, e) ==
    Return(Toast([r EXCEPT !.error = e], "error", MsgGoogleError(e)))

\* catch (error): lines 137-144
googleCatch(r, e) ==
    LET r1 == [r EXCEPT !.error = e]
    IN IF e.code = "auth/popup-closed-by-user"
       THEN Return(Toast(r1, "error", MsgCancelled))
       ELSE Return(Toast(r1, "error", MsgGoogleError(e)))

\* entry of handleGoogleSignIn up to its first await
googleEnter ==
    Call([NoInv EXCEPT !.kind = "google", !.pc = "popup"], <<"signInWithPopup">>)

\* signInWithPopup resolved: lines 106-108
googlePopupResolved(r, user, info) ==
    Call([r EXCEPT !.user = user, !.isNewUser = info.present /\ info.isNewUser,
                   !.pc = "gGetIdToken"],
         <<"getIdToken">>)

GoogleSignInCall(r, tok) == <<"signIn", r.user.email, tok>>

\* getIdToken resolved with tok: lines 110-121 and 130
googleIdTokenResolved(r, tok) ==
    LET r1 == [r EXCEPT !.idToken = tok]
    IN IF ~Truthy(tok) THEN Return(Toast(r1, "error", MsgGoogleFailed))
       ELSE IF r.isNewUser
       THEN Call([r1 EXCEPT !.pc = "gSignUp"],
                 <<"signUp", r.user.uid,
                   IF r.user.displayName # <<>> THEN r.user.displayName
                   ELSE <<"U", "s", "e", "r">>,
                   r.user.email, <<>>>>)
       ELSE Call([r1 EXCEPT !.pc = "gSignIn"], GoogleSignInCall(r, tok))

googleSignUpReturnedAborts(r, res) ==
    LET r1 == [r EXCEPT !.result = res]
    IN IF ~res.defined THEN googleCatch(r1, TypeError)
       ELSE IF ~res.success
       THEN Return(Toast(r1, "error",
                IF Truthy(res.message) THEN <<res.message>> ELSE MsgFinalizeFailed))
       ELSE Call([r1 EXCEPT !.pc = "gSignIn"], GoogleSignInCall(r, r.idToken))

\* remote signUp returned res: lines 123-133
googleSignUpReturned(r, res) ==
    LET r1 == [r EXCEPT !.result = res]
    IN IF ~res.defined THEN googleCatch(r1, TypeError)
       ELSE LET r2 == IF ~res.success
                      THEN Toast(r1, "error",
                               IF Truthy(res.message) THEN <<res.message>>
                               ELSE MsgFinalizeFailed)
                      ELSE r1
            IN Call([r2 EXCEPT !.pc = "gSignIn"], GoogleSignInCall(r, r.idToken))

\* remote signIn returned res, which the handler binds to nothing (lines 130-136)
googleSignInReturned(r, res) ==
    Return(Push(Toast(r, "success", MsgGoogleSignedIn), "/"))

---------------------------------------------------------------------------
(* The form instance *)

\* an invocation suspended at an await
Awaiting(r) == r.pc \notin {"done", "escaped"}
Outstanding == {r \in BagToSet(inv) : Awaiting(r)}
HasFreeSlot == BagCardinality(inv) < MaxInvocations
\* invocation r continues up to its next await, or to its end, as r2
Replaced(B, r, r2) == (B (-) SetToBag({r})) (+) SetToBag({r2})

FormInit ==
    /\ type \in {"sign-in", "sign-up"}
    /\ values = EmptyData
    /\ formErrors = {}
    /\ inv = EmptyBag

\* The user fills in the fields and presses the submit button:
\* form.handleSubmit(onSubmit) runs the resolver, and onSubmit only on no error.
\* Nothing disables the button or refuses a submit while another is in flight.
HandleSubmit ==
    \E d \in Inputs(type) :
        LET errors == authFormSchema(type, d)
        IN /\ errors # {} \/ HasFreeSlot
           /\ values' = d
           /\ formErrors' = errors
           /\ inv' = IF errors = {}
                     THEN inv (+) SetToBag({onSubmitEnter(type, d)})
                     ELSE inv
           /\ UNCHANGED <<type, sdkVars>>

\* onClick={handleGoogleSignIn}: no schema, no guard
ClickGoogle ==
    /\ HasFreeSlot
    /\ inv' = inv (+) SetToBag({googleEnter})
    /\ UNCHANGED <<type, values, formErrors, sdkVars>>

\* await createUserWithEmailAndPassword(...) resolves or rejects
CreateUserSettles ==
    /\ \E r \in BagToSet(inv) :
          /\ r.kind = "onSubmit" /\ r.pc = "createUser"
          /\ \/ \E uid \in {"u1"} : inv' = Replaced(inv, r, onCreateUserResolved(r, uid))
             \/ \E e \in ProviderErrors : inv' = Replaced(inv, r, onSubmitCatch(r, e))
    /\ UNCHANGED <<type, values, formErrors, sdkVars>>

\* await signUp(...) of onSubmit returns or throws
SignUpSettles ==
    /\ \E r \in BagToSet(inv) :
          /\ r.kind = "onSubmit" /\ r.pc = "signUp"
          /\ \/ \E res \in Results : inv' = Replaced(inv, r, onSignUpReturned(r, res))
             \/ \E e \in ProviderErrors : inv' = Replaced(inv, r, onSubmitCatch(r, e))
    /\ UNCHANGED <<type, values, formErrors, sdkVars>>

\* await signInWithEmailAndPassword(...) resolves or rejects
SignInWithEmailSettles ==
    /\ \E r \in BagToSet(inv) :
          /\ r.kind = "onSubmit" /\ r.pc = "signInWithEmail"
          /\ \/ \E uid \in {"u1"} : inv' = Replaced(inv, r, onSignInWithEmailResolved(r, uid))
             \/ \E e \in ProviderErrors : inv' = Replaced(inv, r, onSubmitCatch(r, e))
    /\ UNCHANGED <<type, values, formErrors, sdkVars>>

\* await userCredential.user.getIdToken() of onSubmit resolves or rejects
IdTokenSettles ==
    /\ \E r \in BagToSet(inv) :
          /\ r.kind = "onSubmit" /\ r.pc = "getIdToken"
          /\ \/ \E tok \in Tokens : inv' = Replaced(inv, r, onIdTokenResolved(r, tok))
             \/ \E e \in ProviderErrors : inv' = Replaced(inv, r, onSubmitCatch(r, e))
    /\ UNCHANGED <<type, values, formErrors, sdkVars>>

\* await signIn(...) of onSubmit returns or throws
SignInSettles ==
    /\ \E r \in BagToSet(inv) :
          /\ r.kind = "onSubmit" /\ r.pc = "signIn"
          /\ \/ \E res \in SignInResults : inv' = Replaced(inv, r, onSignInReturned(r, res))
             \/ \E e \in ProviderErrors : inv' = Replaced(inv, r, onSubmitCatch(r, e))
    /\ UNCHANGED <<type, values, formErrors, sdkVars>>

\* await signInWithPopup(...) resolves or rejects
PopupSettles ==
    /\ \E r \in BagToSet(inv) :
          /\ r.kind = "google" /\ r.pc = "popup"
          /\ \/ \E u \in GoogleUsers, info \in UserInfos : inv' = Replaced(inv, r, googlePopupResolved(r, u, info))
             \/ \E e \in PopupErrors : inv' = Replaced(inv, r, googleCatch(r, e))
    /\ UNCHANGED <<type, values, formErrors, sdkVars>>

\* await user.getIdToken() of handleGoogleSignIn resolves or rejects
GoogleIdTokenSettles ==
    /\ \E r \in BagToSet(inv) :
          /\ r.kind = "google" /\ r.pc = "gGetIdToken"
          /\ \/ \E tok \in Tokens : inv' = Replaced(inv, r, googleIdTokenResolved(r, tok))
             \/ \E e \in ProviderErrors : inv' = Replaced(inv, r, googleCatch(r, e))
    /\ UNCHANGED <<type, values, formErrors, sdkVars>>

\* await signUp(...) of handleGoogleSignIn returns or throws
GoogleSignUpSettles ==
    /\ \E r \in BagToSet(inv) :
          /\ r.kind = "google" /\ r.pc = "gSignUp"
          /\ \/ \E res \in Results : inv' = Replaced(inv, r, googleSignUpReturned(r, res))
             \/ \E e \in ProviderErrors : inv' = Replaced(inv, r, googleCatch(r, e))
    /\ UNCHANGED <<type, values, formErrors, sdkVars>>

\* await signIn(...) of handleGoogleSignIn returns or throws
GoogleSignInSettles ==
    /\ \E r \in BagToSet(inv) :
          /\ r.kind = "google" /\ r.pc = "gSignIn"
          /\ \/ \E res \in SignInResults : inv' = Replaced(inv, r, googleSignInReturned(r, res))
             \/ \E e \in ProviderErrors : inv' = Replaced(inv, r, googleCatch(r, e))
    /\ UNCHANGED <<type, values, formErrors, sdkVars>>

\* some awaited call settles
Settle ==
    \/ CreateUserSettles
    \/ SignUpSettles
    \/ SignInWithEmailSettles
    \/ IdTokenSettles
    \/ SignInSettles
    \/ PopupSettles
    \/ GoogleIdTokenSettles
    \/ GoogleSignUpSettles
    \/ GoogleSignInSettles

\* no SDK initialiser runs while the form is exercised
SdkIdle ==
    /\ clientApps = <<>> /\ clientInits = 0 /\ clientHandles = <<>>
    /\ adminApps = <<>> /\ adminInits = 0 /\ adminHandles = <<>>
    /\ envKey = [set |-> FALSE, text |-> <<>>] /\ certKeys = <<>>

Init == FormInit /\ SdkIdle

Next ==
    \/ HandleSubmit
    \/ ClickGoogle
    \/ CreateUserSettles
    \/ SignUpSettles
    \/ SignInWithEmailSettles
    \/ IdTokenSettles
    \/ SignInSettles
    \/ PopupSettles
    \/ GoogleIdTokenSettles
    \/ GoogleSignUpSettles
    \/ GoogleSignInSettles

Spec == Init /\ [][Next]_vars

\* awaited provider calls and remote actions keep settling: each of the awaits
\* is weakly fair
FairSpec ==
    /\ Spec
    /\ WF_vars(CreateUserSettles) /\ WF_vars(SignUpSettles)
    /\ WF_vars(SignInWithEmailSettles) /\ WF_vars(IdTokenSettles)
    /\ WF_vars(SignInSettles) /\ WF_vars(PopupSettles)
    /\ WF_vars(GoogleIdTokenSettles) /\ WF_vars(GoogleSignUpSettles)
    /\ WF_vars(GoogleSignInSettles)

---------------------------------------------------------------------------
(* SDK initialisers: firebase/client.ts and firebase/admin.ts *)

LineBreak == "\n"
Backslash == "\\"
KeyChars == {Backslash, "n", "k", LineBreak}
KeyTexts == UNION {[1..n -> KeyChars] : n \in 0..MaxKeyLen}

RECURSIVE ReplaceFirstOnly(_)
ReplaceFirstOnly(s) ==
    IF Len(s) >= 2 /\ s[1] = Backslash /\ s[2] = "n"
    THEN <<LineBreak>> \o SubSeq(s, 3, Len(s))
    ELSE IF s = <<>> THEN <<>>
    ELSE <<Head(s)>> \o ReplaceFirstOnly(Tail(s))

RECURSIVE ReplaceEscapedNewlines(_)
\* s.replace(/\\n/g, "\n"): matches are found left to right and do not overlap
ReplaceEscapedNewlines(s) ==
    IF Len(s) >= 2 /\ s[1] = Backslash /\ s[2] = "n"
    THEN <<LineBreak>> \o ReplaceEscapedNewlines(SubSeq(s, 3, Len(s)))
    ELSE IF s = <<>> THEN <<>>
    ELSE <<Head(s)>> \o ReplaceEscapedNewlines(Tail(s))

\* process.env.FIREBASE_PRIVATE_KEY?.replace(/\\n/g, "\n")
PrivateKey(env) ==
    IF env.set THEN [set |-> TRUE, text |-> ReplaceEscapedNewlines(env.text)]
    ELSE env

clientAppUnguarded(apps, inits) ==
    [apps |-> Append(apps, inits + 1), inits |-> inits + 1, app |-> inits + 1]

\* const app = !getApps().length ? initializeApp(firebaseConfig) : getApp();
\* an app is named by the initializeApp call that made it
clientApp(apps, inits) ==
    IF Len(apps) = 0
    THEN [apps |-> <<inits + 1>>, inits |-> inits + 1, app |-> inits + 1]
    ELSE [apps |-> apps, inits |-> inits, app |-> apps[1]]

\* one evaluation of the module firebase/client.ts
EvalClientModule ==
    /\ Len(clientHandles) < MaxEvals
    /\ LET r == clientApp(clientApps, clientInits)
       IN /\ clientApps' = r.apps
          /\ clientInits' = r.inits
          /\ clientHandles' = Append(clientHandles, [auth |-> r.app, db |-> r.app])
    /\ UNCHANGED <<formVars, adminApps, adminInits, adminHandles, envKey, certKeys>>

\* one call of initFirebaseAdmin()
InitFirebaseAdmin ==
    /\ Len(adminHandles) < MaxEvals
    /\ \/ /\ Len(adminApps) = 0
          /\ certKeys' = Append(certKeys, PrivateKey(envKey))
          /\ adminInits' = adminInits + 1
          /\ adminApps' = <<adminInits + 1>>
          /\ adminHandles' = Append(adminHandles,
                                    [auth |-> adminInits + 1, db |-> adminInits + 1])
       \/ /\ Len(adminApps) # 0
          /\ adminHandles' = Append(adminHandles,
                                    [auth |-> adminApps[1], db |-> adminApps[1]])
          /\ UNCHANGED <<certKeys, adminInits, adminApps>>
    /\ UNCHANGED <<formVars, clientApps, clientInits, clientHandles, envKey>>

\* a fresh process: empty registries, any private key in the environment, or none
SdkInit ==
    /\ FormInit
    /\ clientApps = <<>> /\ clientInits = 0 /\ clientHandles = <<>>
    /\ adminApps = <<>> /\ adminInits = 0 /\ adminHandles = <<>>
    /\ envKey \in {[set |-> FALSE, text |-> <<>>]} \cup [set : {TRUE}, text : KeyTexts]
    /\ certKeys = <<>>

SdkNext ==
    \/ EvalClientModule
    \/ InitFirebaseAdmin

SdkSpec == SdkInit /\ [][SdkNext]_vars

---------------------------------------------------------------------------
(* Properties of the credential form flow *)

HasAt(s) == \E k \in 1..Len(s) : s[k] = "@"
CallsOf(r, fn) == {k \in 1..Len(r.calls) : r.calls[k][1] = fn}
\* getIdToken has resolved with a non-empty token
HasToken(r) == r.idToken \notin {Unset, "", JsUndefined}
ErrorToast(text) == [level |-> "error", text |-> text]
SuccessToast(text) == [level |-> "success", text |-> text]

\* C1: a submission whose email is not a valid email (for one, has no "@"), whose
\* password is shorter than 3, or (sign-up) whose name is shorter than 3 starts
\* no onSubmit invocation, hence makes no provider call and no remote action;
\* with sign-in the name is never reported as an error.
C1_InvalidInputNeverSubmits ==
    /\ [](/\ \A r \in BagToSet(inv) :
                r.kind = "onSubmit" =>
                    /\ HasAt(r.data.email) /\ IsEmail(r.data.email)
                    /\ Len(r.data.password) >= 3
                    /\ type = "sign-up" => Len(r.data.name) >= 3
          /\ type = "sign-in" => "name" \notin formErrors)
    /\ [][(/\ values' # values \/ formErrors' # formErrors
           /\ \/ ~HasAt(values'.email) \/ ~IsEmail(values'.email)
              \/ Len(values'.password) < 3
              \/ type = "sign-up" /\ Len(values'.name) < 3)
          => inv' = inv /\ formErrors' # {}]_vars

\* a sign-up submission without "@" was refused, and so was one with a short name
C1_Witness ==
    /\ type = "sign-up"
    /\ inv = EmptyBag
    /\ \/ ~HasAt(values.email) /\ formErrors = {"email"}
       \/ Len(values.name) = 2 /\ formErrors = {"name"}

\* C2: in the sign-up branch, once remote signUp has answered {success: false,
\* message: X}, the attempt has shown exactly one notification, an error whose
\* text is X, it has ended, and it has not navigated.
C2_SignUpFailureShowsMessage ==
    \A r \in BagToSet(inv) :
        (r.kind = "onSubmit" /\ r.result.defined /\ ~r.result.success)
        => /\ r.toasts = <<ErrorToast(<<r.result.message>>)>>
           /\ r.nav = <<>>
           /\ r.pc = "done"

C2_Witness ==
    \E r \in BagToSet(inv) :
        /\ r.kind = "onSubmit" /\ r.pc = "done"
        /\ CallsOf(r, "createUserWithEmailAndPassword") # {}
        /\ r.result = [defined |-> TRUE, success |-> FALSE, message |-> "X"]

\* C3: in the sign-in branch, once getIdToken has yielded an empty or absent
\* token, the only notification is the fixed sign-in-failed error, remote signIn
\* has not been called, and the attempt has not navigated.
C3_NoTokenFailsSignIn ==
    \A r \in BagToSet(inv) :
        (r.kind = "onSubmit" /\ r.idToken \in {"", JsUndefined})
        => /\ r.toasts = <<ErrorToast(MsgSignInFailed)>>
           /\ CallsOf(r, "signIn") = {}
           /\ r.nav = <<>>
           /\ r.pc = "done"

C3_Witness ==
    \E r \in BagToSet(inv) :
        /\ r.kind = "onSubmit" /\ r.pc = "done"
        /\ CallsOf(r, "signInWithEmailAndPassword") # {}
        /\ r.idToken = ""

\* C4: in the federated flow, a provider error with code
\* auth/popup-closed-by-user shows the cancellation message and nothing else;
\* a provider error with any other code shows the generic failure message and
\* nothing else; either way no remote action is called and nothing navigates.
C4_PopupClosedIsCancellation ==
    \A r \in BagToSet(inv) :
        (r.kind = "google" /\ r.error # NoError /\ r.idToken = Unset)
        => /\ r.toasts =
                 IF r.error.code = "auth/popup-closed-by-user"
                 THEN <<ErrorToast(MsgCancelled)>>
                 ELSE <<ErrorToast(MsgGoogleError(r.error))>>
           /\ MsgCancelled # MsgGoogleError(r.error)
           /\ CallsOf(r, "signUp") = {} /\ CallsOf(r, "signIn") = {}
           /\ r.nav = <<>>

C4_Witness ==
    \E r \in BagToSet(inv) :
        /\ r.kind = "google" /\ r.pc = "done"
        /\ r.error = PopupClosed

\* C5: at most one handler invocation of the form instance is suspended at an
\* awaited call at any time.
C5_AtMostOneOutstanding ==
    /\ Cardinality(Outstanding) <= 1
    /\ \A r \in Outstanding : CopiesIn(r, inv) = 1

\* every started invocation has ended, having shown a notification
AllEnded == \A r \in BagToSet(inv) : r.pc = "done" /\ Len(r.toasts) >= 1

\* C6: an invocation never lets an exception escape, an exception it caught is
\* shown as an error notification, an ended invocation stays ended, and (the
\* awaited calls settling) whenever invocations have been started, all of them
\* eventually have ended with at least one notification shown.
C6_EveryAttemptEnds ==
    /\ [](\A r \in BagToSet(inv) :
             /\ r.pc # "escaped"
             /\ r.pc = "done" => Len(r.toasts) >= 1
             /\ r.error # NoError =>
                    /\ r.pc = "done"
                    /\ r.toasts[Len(r.toasts)].level = "error")
    /\ [][/\ BagCardinality(inv') >= BagCardinality(inv)
          /\ \A r \in BagToSet(inv) :
                r.pc = "done" => CopiesIn(r, inv') >= CopiesIn(r, inv)]_vars
    /\ (inv # EmptyBag) ~> AllEnded

\* an onSubmit attempt whose remote action rejected has ended with an error shown
C6_Witness ==
    \E r \in BagToSet(inv) :
        /\ r.kind = "onSubmit" /\ r.pc = "done"
        /\ r.error = NetworkError
        /\ CallsOf(r, "signUp") # {} \/ CallsOf(r, "signIn") # {}
        /\ r.toasts = <<ErrorToast(MsgError(NetworkError))>>

\* C9: in the federated flow with a non-empty token: for a new identity signUp
\* is called before signIn; after signUp answers success: false an error is shown
\* first, signIn is still called once with {email, idToken}, and when it returns
\* the success notification follows and the flow navigates to "/". For an
\* identity that is not new, signUp is never called and signIn is called once.
C9_FederatedSignUpFailureContinues ==
    \A r \in BagToSet(inv) :
        r.kind = "google" =>
            /\ (r.isNewUser /\ HasToken(r)) =>
                  /\ Cardinality(CallsOf(r, "signUp")) = 1
                  /\ \A a \in CallsOf(r, "signUp"), b \in CallsOf(r, "signIn") :
                        a < b
            /\ (r.isNewUser /\ r.result.defined /\ ~r.result.success) =>
                  /\ Len(r.toasts) >= 1 /\ r.toasts[1].level = "error"
                  /\ Cardinality(CallsOf(r, "signIn")) = 1
                  /\ r.calls[Len(r.calls)]
                        = <<"signIn", r.user.email, r.idToken>>
                  /\ (r.pc = "done" /\ r.error = NoError) =>
                        /\ Len(r.toasts) = 2
                        /\ r.toasts[2] = SuccessToast(MsgGoogleSignedIn)
                        /\ r.nav = <<"/">>
            /\ ~r.isNewUser =>
                  /\ CallsOf(r, "signUp") = {}
                  /\ HasToken(r) =>
                        /\ Cardinality(CallsOf(r, "signIn")) = 1
                        /\ r.calls[Len(r.calls)]
                              = <<"signIn", r.user.email, r.idToken>>

C9_Witness ==
    \E r \in BagToSet(inv) :
        /\ r.kind = "google" /\ r.pc = "done"
        /\ r.isNewUser
        /\ r.result.defined /\ ~r.result.success
        /\ r.nav = <<"/">>

\* C10: in the sign-in branch with a non-empty token, remote signIn is called
\* once with {email, idToken}; whatever it returns, a reported failure included,
\* the attempt shows only the signed-in confirmation and navigates to "/".
C10_SignInResultIgnored ==
    \A r \in BagToSet(inv) :
        (r.kind = "onSubmit" /\ type = "sign-in" /\ HasToken(r))
        => /\ Cardinality(CallsOf(r, "signIn")) = 1
           /\ r.calls[Len(r.calls)]
                 = <<"signIn", r.data.email, r.idToken>>
           /\ r.signInReturned # NoResult =>
                 /\ r.pc = "done"
                 /\ r.toasts = <<SuccessToast(MsgSignedIn)>>
                 /\ r.nav = <<"/">>

C10_Witness ==
    \E r \in BagToSet(inv) :
        /\ r.kind = "onSubmit" /\ r.pc = "done"
        /\ r.signInReturned.defined /\ ~r.signInReturned.success
        /\ r.nav = <<"/">>

---------------------------------------------------------------------------
(* Properties of the SDK initialisers *)

\* C7: however often the initialisers are evaluated, each SDK's initializeApp is
\* called at most once, and only on an empty registry; every evaluation hands
\* out handles of that one app.
C7_InitialisationIdempotent ==
    /\ [](/\ clientInits <= 1 /\ adminInits <= 1
          /\ Len(clientApps) <= 1 /\ Len(adminApps) <= 1
          /\ \A k \in 1..Len(clientHandles) :
                clientHandles[k] = [auth |-> clientApps[1], db |-> clientApps[1]]
          /\ \A k \in 1..Len(adminHandles) :
                adminHandles[k] = [auth |-> adminApps[1], db |-> adminApps[1]])
    /\ [][/\ clientInits' # clientInits => clientApps = <<>>
          /\ adminInits' # adminInits => adminApps = <<>>]_vars

C7_Witness ==
    /\ Len(clientHandles) >= 2 /\ Len(adminHandles) >= 2
    /\ clientInits = 1 /\ adminInits = 1

\* the places of s where a backslash is followed by "n"
EscapedAt(s) == {k \in 1..(Len(s) - 1) : s[k] = Backslash /\ s[k + 1] = "n"}

\* C8: the key handed to credential construction is the environment value with
\* each backslash-n pair turned into one line break and every other character
\* kept in place and order; no backslash-n pair is left in it.
C8_PrivateKeyNewlines ==
    \A c \in 1..Len(certKeys) :
        envKey.set =>
            LET raw == envKey.text
                out == certKeys[c].text
                esc == EscapedAt(raw)
            IN /\ certKeys[c].set
               /\ Len(out) = Len(raw) - Cardinality(esc)
               /\ \A j \in 1..Len(raw) :
                     (j - 1) \notin esc =>
                        out[j - Cardinality({k \in esc : k < j})]
                            = IF j \in esc THEN LineBreak ELSE raw[j]
               /\ EscapedAt(out) = {}

\* a key with two escaped line breaks went through credential construction
C8_Witness ==
    /\ certKeys # <<>>
    /\ envKey.set
    /\ Cardinality(EscapedAt(envKey.text)) = 2

====
